---- MODULE Spec2Model ----
(***************************************************************************)
(* Model of tunacode's provider-agnostic type layer:                       *)
(*   src/src/tunacode/types/usage.py      (NormalizedUsage and its two     *)
(*                                         entry points)                   *)
(*   src/src/tunacode/types/streaming.py  (StreamEvent variants and the    *)
(*                                         two classification predicates)  *)
(*   src/src/tunacode/core/agents/runner.py (AgentNode, and a run behind   *)
(*                                         AgentRunProtocol)               *)
(*                                                                         *)
(* Python values are tagged records: [t |-> "int", v |-> n],               *)
(* [t |-> "float", half |-> h] (the float h/2), [t |-> "str", s |-> chars] *)
(* and [t |-> "none"].  A str is a sequence of one-character strings so    *)
(* that int(str) is computed by parsing.  A dict, and the attribute set of *)
(* a provider usage object, is a function from the names present.          *)
(***************************************************************************)
EXTENDS Integers, Sequences, FiniteSets, TLC

VARIABLES
    input,      \* usage spec: the argument of the first call
    usage,      \* usage spec: outcome of the first call
    total,      \* usage spec: value read from usage.total_tokens
    dumped,     \* usage spec: dict returned by usage.to_dict()
    reloaded,   \* usage spec: outcome of usage_from_dict(dumped)
    event,      \* stream spec: the StreamEvent instance
    verdict,    \* stream spec: results of is_content_delta / is_tool_event
    attempt,    \* stream spec: outcome of the last attribute assignment
    node,       \* node spec: the AgentNode instance
    queries,    \* node spec: results of the derived properties
    produced,   \* run spec: kinds of the nodes the backend has produced, in order
    observed    \* run spec: outcome of each "next node" step of the consumer

vars == <<input, usage, total, dumped, reloaded, event, verdict, attempt, node, queries,
          produced, observed>>

usageVars == <<input, usage, total, dumped, reloaded>>
streamVars == <<event, verdict, attempt>>
nodeVars == <<node, queries>>
runVars == <<produced, observed>>

----------------------------------------------------------------------------
(* Bounds of the exploration *)

\* NormalizedUsage(...) is constructed directly with fields in -MaxTok..MaxTok
MaxTok == 2
\* an input mapping holds at most MaxKeys of the recognised keys
MaxKeys == 2
\* a run produces at most MaxNodes nodes before its end node
MaxNodes == 3
\* the consumer takes at most MaxPastEnd steps after the run is exhausted
MaxPastEnd == 2

----------------------------------------------------------------------------
(* Python values *)

PyNone == [t |-> "none"]
PyInt(n) == [t |-> "int", v |-> n]
PyFloat(h) == [t |-> "float", half |-> h]
PyStr(cs) == [t |-> "str", s |-> cs]

\* Input values a backend may put in a usage field.
IntInputs == {PyInt(0 - 1), PyInt(0), PyInt(2)}
\* -1.5, 0.0 and 0.5
FloatInputs == {PyFloat(0 - 3), PyFloat(0), PyFloat(1)}
\* "", "2", "-1", " 7 " and "x"
StrInputs == {PyStr(<<>>), PyStr(<<"2">>), PyStr(<<"-", "1">>),
              PyStr(<<" ", "7", " ">>), PyStr(<<"x">>)}
RawValues == {PyNone} \cup IntInputs \cup FloatInputs \cup StrInputs

Pending == [tag |-> "pending"]
Returned(x) == [tag |-> "returned", value |-> x]
Raised(e) == [tag |-> "raised", exc |-> e]

----------------------------------------------------------------------------
(* Python builtins used by usage.py *)

Digits == {"0", "1", "2", "3", "4", "5", "6", "7", "8", "9"}

DigitVal(c) ==
    CASE c = "0" -> 0 [] c = "1" -> 1 [] c = "2" -> 2 [] c = "3" -> 3
      [] c = "4" -> 4 [] c = "5" -> 5 [] c = "6" -> 6 [] c = "7" -> 7
      [] c = "8" -> 8 [] c = "9" -> 9

RECURSIVE StripLeft(_)
StripLeft(cs) ==
    IF cs # <<>> /\ Head(cs) = " " THEN StripLeft(Tail(cs)) ELSE cs

RECURSIVE StripRight(_)
StripRight(cs) ==
    IF cs # <<>> /\ cs[Len(cs)] = " "
    THEN StripRight(SubSeq(cs, 1, Len(cs) - 1))
    ELSE cs

RECURSIVE DigitsValue(_, _)
DigitsValue(cs, acc) ==
    IF cs = <<>> THEN acc
    ELSE DigitsValue(Tail(cs), 10 * acc + DigitVal(Head(cs)))

\* int(str): surrounding whitespace stripped, an optional sign, then one or
\* more decimal digits; anything else is a ValueError.
IntOfStr(cs) ==
    LET body == StripRight(StripLeft(cs))
        signed == body # <<>> /\ Head(body) \in {"-", "+"}
        digits == IF signed THEN Tail(body) ELSE body
    IN  IF digits = <<>> \/ \E i \in 1..Len(digits) : digits[i] \notin Digits
        THEN Raised("ValueError")
        ELSE IF signed /\ Head(body) = "-"
             THEN Returned(0 - DigitsValue(digits, 0))
             ELSE Returned(DigitsValue(digits, 0))

\* int(float) truncates toward zero; the float is half/2.
IntOfFloat(h) ==
    IF h >= 0 THEN h \div 2 ELSE 0 - ((0 - h) \div 2)

\* int(x)
ToInt(x) ==
    CASE x.t = "int" -> Returned(x.v)
      [] x.t = "float" -> Returned(IntOfFloat(x.half))
      [] x.t = "str" -> IntOfStr(x.s)
      [] x.t = "none" -> Raised("TypeError")

\* bool(x)
Truthy(x) ==
    CASE x.t = "int" -> x.v # 0
      [] x.t = "float" -> x.half # 0
      [] x.t = "str" -> x.s # <<>>
      [] x.t = "none" -> FALSE

\* getattr(obj, name, default) on an object whose attributes are attrs
GetAttr(attrs, name, default) ==
    IF name \in DOMAIN attrs THEN attrs[name] ELSE default

\* dict.get(key, default)
DictGet(data, key, default) ==
    IF key \in DOMAIN data THEN data[key] ELSE default

----------------------------------------------------------------------------
(* usage.py *)

USAGE_ATTR_REQUEST_TOKENS == "request_tokens"
USAGE_ATTR_RESPONSE_TOKENS == "response_tokens"
USAGE_ATTR_CACHED_TOKENS == "cached_tokens"

DEFAULT_TOKEN_COUNT == 0

UsageAttrs ==
    {USAGE_ATTR_REQUEST_TOKENS, USAGE_ATTR_RESPONSE_TOKENS, USAGE_ATTR_CACHED_TOKENS}

\* the keys usage_from_dict reads, and the one to_dict adds
DictKeys ==
    {"request_tokens", "prompt_tokens", "response_tokens", "completion_tokens",
     "cached_tokens", "total_tokens"}

\* the frozen dataclass; the constructor stores its arguments unchanged
NormalizedUsage(request, response, cached) ==
    [t |-> "NormalizedUsage", request_tokens |-> request,
     response_tokens |-> response, cached_tokens |-> cached]

IsUsage(x) == x.t = "NormalizedUsage"

\* mutant: the cached tokens are added to the total
total_tokens_with_cached(self) ==
    self.request_tokens + self.response_tokens + self.cached_tokens

total_tokens(self) == self.request_tokens + self.response_tokens

\* mutant: the request and response counts are written under each other's key
to_dict_swapped(self) ==
    [request_tokens |-> PyInt(self.response_tokens),
     response_tokens |-> PyInt(self.request_tokens),
     cached_tokens |-> PyInt(self.cached_tokens),
     total_tokens |-> PyInt(total_tokens(self))]

to_dict(self) ==
    [request_tokens |-> PyInt(self.request_tokens),
     response_tokens |-> PyInt(self.response_tokens),
     cached_tokens |-> PyInt(self.cached_tokens),
     total_tokens |-> PyInt(total_tokens(self))]

\* a provider usage object exposing the attributes in DOMAIN attrs
UsageObject(attrs) == [t |-> "object", attrs |-> attrs]

\* mutant: a value int() rejects is swallowed and counted as 0
_read_usage_value_lenient(obj, attribute) ==
    LET raw_value == GetAttr(obj.attrs, attribute, PyNone)
        coerced == ToInt(IF Truthy(raw_value) THEN raw_value ELSE PyInt(DEFAULT_TOKEN_COUNT))
    IN  IF coerced.tag = "raised" THEN Returned(DEFAULT_TOKEN_COUNT) ELSE coerced

\* mutant: a negative count is clamped to 0 on this entry point only
_read_usage_value_clamped(obj, attribute) ==
    LET raw_value == GetAttr(obj.attrs, attribute, PyNone)
        coerced == ToInt(IF Truthy(raw_value) THEN raw_value ELSE PyInt(DEFAULT_TOKEN_COUNT))
    IN  IF coerced.tag = "returned" /\ coerced.value < 0
        THEN Returned(DEFAULT_TOKEN_COUNT)
        ELSE coerced

_read_usage_value(obj, attribute) ==
    LET raw_value == GetAttr(obj.attrs, attribute, PyNone)
    IN  ToInt(IF Truthy(raw_value) THEN raw_value ELSE PyInt(DEFAULT_TOKEN_COUNT))

\* NormalizedUsage(int-results...) with the arguments evaluated left to
\* right: the first int() that raises ends the call.
UsageOfReads(request, response, cached) ==
    IF request.tag = "raised" THEN request
    ELSE IF response.tag = "raised" THEN response
    ELSE IF cached.tag = "raised" THEN cached
    ELSE Returned(NormalizedUsage(request.value, response.value, cached.value))

\* mutant: no usage reported is turned into a zero-filled usage
normalize_zero_for_none(obj) ==
    IF obj = PyNone THEN Returned(NormalizedUsage(0, 0, 0))
    ELSE UsageOfReads(_read_usage_value(obj, USAGE_ATTR_REQUEST_TOKENS),
                      _read_usage_value(obj, USAGE_ATTR_RESPONSE_TOKENS),
                      _read_usage_value(obj, USAGE_ATTR_CACHED_TOKENS))

normalize_request_usage(obj) ==
    IF obj = PyNone THEN Returned(PyNone)
    ELSE UsageOfReads(_read_usage_value(obj, USAGE_ATTR_REQUEST_TOKENS),
                      _read_usage_value(obj, USAGE_ATTR_RESPONSE_TOKENS),
                      _read_usage_value(obj, USAGE_ATTR_CACHED_TOKENS))

\* mutant: data.get(canonical) or data.get(alternate, 0): a falsy canonical
\* value falls back to the alternate key
usage_from_dict_falsy_fallback(data) ==
    LET pick(key, alt) ==
            LET first == DictGet(data, key, PyNone)
            IN  IF Truthy(first) THEN first ELSE DictGet(data, alt, PyInt(0))
        cached == DictGet(data, "cached_tokens", PyInt(0))
    IN  UsageOfReads(ToInt(pick("request_tokens", "prompt_tokens")),
                     ToInt(pick("response_tokens", "completion_tokens")),
                     ToInt(cached))

\* mutant: a stored total_tokens is trusted: the response count is derived
\* from it when no response key is present
usage_from_dict_trusts_total(data) ==
    LET request == DictGet(data, "request_tokens",
                           DictGet(data, "prompt_tokens", PyInt(0)))
        response == DictGet(data, "response_tokens",
                            DictGet(data, "completion_tokens", PyInt(0)))
        cached == DictGet(data, "cached_tokens", PyInt(0))
        stored == DictGet(data, "total_tokens", PyInt(0))
        derived ==
            IF /\ "total_tokens" \in DOMAIN data
               /\ {"response_tokens", "completion_tokens"} \cap DOMAIN data = {}
               /\ ToInt(request).tag = "returned"
               /\ ToInt(stored).tag = "returned"
            THEN Returned(ToInt(stored).value - ToInt(request).value)
            ELSE ToInt(response)
    IN  UsageOfReads(ToInt(request), derived, ToInt(cached))

usage_from_dict(data) ==
    LET request == DictGet(data, "request_tokens",
                           DictGet(data, "prompt_tokens", PyInt(0)))
        response == DictGet(data, "response_tokens",
                            DictGet(data, "completion_tokens", PyInt(0)))
        cached == DictGet(data, "cached_tokens", PyInt(0))
    IN  UsageOfReads(ToInt(request), ToInt(response), ToInt(cached))

----------------------------------------------------------------------------
(* Inputs of the usage specification *)

TokenInputs == (0 - MaxTok)..MaxTok

ObjectInputs ==
    UNION {{UsageObject(f) : f \in [A -> RawValues]} : A \in SUBSET UsageAttrs}

MappingInputs ==
    UNION {[K -> RawValues] : K \in {S \in SUBSET DictKeys : Cardinality(S) <= MaxKeys}}

\* the usage dicts the specification's scenarios name
ScenarioMappings ==
    {[request_tokens |-> PyInt(10), response_tokens |-> PyInt(20), cached_tokens |-> PyInt(3)],
     [prompt_tokens |-> PyInt(5), completion_tokens |-> PyInt(7)],
     [request_tokens |-> PyInt(5), response_tokens |-> PyInt(7)]}

UsageInputs ==
    {[call |-> "NormalizedUsage", request |-> r, response |-> s, cached |-> c] :
        r \in TokenInputs, s \in TokenInputs, c \in TokenInputs}
    \cup {[call |-> "normalize_request_usage", arg |-> o] : o \in ObjectInputs \cup {PyNone}}
    \cup {[call |-> "usage_from_dict", arg |-> d] : d \in MappingInputs \cup ScenarioMappings}

StreamIdle == event = Pending /\ verdict = Pending /\ attempt = Pending
NodeIdle == node = Pending /\ queries = Pending
RunIdle == produced = <<>> /\ observed = <<>>

InitUsage ==
    /\ input \in UsageInputs
    /\ usage = Pending
    /\ total = Pending
    /\ dumped = Pending
    /\ reloaded = Pending
    /\ StreamIdle
    /\ NodeIdle
    /\ RunIdle

(* Operations of the usage specification *)

HoldsUsage == usage.tag = "returned" /\ IsUsage(usage.value)

Construct ==
    /\ input.call = "NormalizedUsage"
    /\ usage = Pending
    /\ usage' = Returned(NormalizedUsage(input.request, input.response, input.cached))
    /\ UNCHANGED <<input, total, dumped, reloaded, streamVars, nodeVars, runVars>>

Normalize ==
    /\ input.call = "normalize_request_usage"
    /\ usage = Pending
    /\ usage' = normalize_request_usage(input.arg)
    /\ UNCHANGED <<input, total, dumped, reloaded, streamVars, nodeVars, runVars>>

FromDict ==
    /\ input.call = "usage_from_dict"
    /\ usage = Pending
    /\ usage' = usage_from_dict(input.arg)
    /\ UNCHANGED <<input, total, dumped, reloaded, streamVars, nodeVars, runVars>>

ReadTotal ==
    /\ HoldsUsage
    /\ total = Pending
    /\ total' = Returned(total_tokens(usage.value))
    /\ UNCHANGED <<input, usage, dumped, reloaded, streamVars, nodeVars, runVars>>

ToDict ==
    /\ HoldsUsage
    /\ dumped = Pending
    /\ dumped' = Returned(to_dict(usage.value))
    /\ UNCHANGED <<input, usage, total, reloaded, streamVars, nodeVars, runVars>>

Reload ==
    /\ dumped # Pending
    /\ reloaded = Pending
    /\ reloaded' = usage_from_dict(dumped.value)
    /\ UNCHANGED <<input, usage, total, dumped, streamVars, nodeVars, runVars>>

NextUsage ==
    \/ Construct
    \/ Normalize
    \/ FromDict
    \/ ReadTotal
    \/ ToDict
    \/ Reload

Spec == InitUsage /\ [][NextUsage]_vars

----------------------------------------------------------------------------
(* streaming.py *)

\* StreamEventKind: the members, by value
TEXT_DELTA == "text-delta"
TOOL_CALL_DELTA == "tool-call-delta"
TOOL_CALL_START == "tool-call-start"
TOOL_CALL_END == "tool-call-end"
THOUGHT_DELTA == "thought-delta"
MESSAGE_START == "message-start"
MESSAGE_END == "message-end"
ERROR == "error"

StreamEventKind ==
    {TEXT_DELTA, TOOL_CALL_DELTA, TOOL_CALL_START, TOOL_CALL_END, THOUGHT_DELTA,
     MESSAGE_START, MESSAGE_END, ERROR}

\* a keyword argument the caller leaves out: the field's default is stored
Omitted == "<omitted>"
OrDefault(argument, default) == IF argument = Omitted THEN default ELSE argument

\* The eight frozen dataclasses.  kind is a field with a default, so the
\* generated __init__ takes it as its last parameter.
TextDelta(content, kind) ==
    [cls |-> "TextDelta", content |-> content, kind |-> OrDefault(kind, TEXT_DELTA)]

ThoughtDelta(content, kind) ==
    [cls |-> "ThoughtDelta", content |-> content, kind |-> OrDefault(kind, THOUGHT_DELTA)]

ToolCallStart(tool_call_id, tool_name, kind) ==
    [cls |-> "ToolCallStart", tool_call_id |-> tool_call_id, tool_name |-> tool_name,
     kind |-> OrDefault(kind, TOOL_CALL_START)]

ToolCallDelta(tool_call_id, args_delta, kind) ==
    [cls |-> "ToolCallDelta", tool_call_id |-> tool_call_id, args_delta |-> args_delta,
     kind |-> OrDefault(kind, TOOL_CALL_DELTA)]

ToolCallEnd(tool_call_id, tool_name, args, kind) ==
    [cls |-> "ToolCallEnd", tool_call_id |-> tool_call_id, tool_name |-> tool_name,
     args |-> args, kind |-> OrDefault(kind, TOOL_CALL_END)]

MessageStart(message_id, kind) ==
    [cls |-> "MessageStart", message_id |-> OrDefault(message_id, PyNone),
     kind |-> OrDefault(kind, MESSAGE_START)]

MessageEnd(message_id, stop_reason, kind) ==
    [cls |-> "MessageEnd", message_id |-> OrDefault(message_id, PyNone),
     stop_reason |-> OrDefault(stop_reason, PyNone),
     kind |-> OrDefault(kind, MESSAGE_END)]

\* (recoverable left out is recoverable = False)
StreamError(error, recoverable, kind) ==
    [cls |-> "StreamError", error |-> error, recoverable |-> recoverable,
     kind |-> OrDefault(kind, ERROR)]

\* isinstance(event, A | B | ...)
IsInstance(obj, classes) == obj.cls \in classes

is_content_delta(ev) == IsInstance(ev, {"TextDelta", "ThoughtDelta"})

\* mutant: the end of a tool call is not counted as a tool event
is_tool_event_without_end(ev) == IsInstance(ev, {"ToolCallStart", "ToolCallDelta"})

is_tool_event(ev) == IsInstance(ev, {"ToolCallStart", "ToolCallDelta", "ToolCallEnd"})

(* Inputs of the stream specification *)

Texts == {"", "hi"}
ToolCallIds == {"call_1", "call_2"}
ToolNames == {"read_file"}
ArgsInputs == {[a \in {} |-> ""], [path |-> "/tmp/x"]}
OptionalIds == {Omitted, "msg_1"}
OptionalReasons == {Omitted, "end_turn"}
KindArgs == StreamEventKind \cup {Omitted}

UsageIdle ==
    /\ input = Pending /\ usage = Pending /\ total = Pending
    /\ dumped = Pending /\ reloaded = Pending

InitStream ==
    /\ event = Pending
    /\ verdict = Pending
    /\ attempt = Pending
    /\ UsageIdle
    /\ NodeIdle
    /\ RunIdle

(* Operations of the stream specification *)

NewTextDelta ==
    /\ event = Pending
    /\ \E c \in Texts, k \in KindArgs : event' = TextDelta(c, k)
    /\ UNCHANGED <<verdict, attempt, usageVars, nodeVars, runVars>>

NewThoughtDelta ==
    /\ event = Pending
    /\ \E c \in Texts, k \in KindArgs : event' = ThoughtDelta(c, k)
    /\ UNCHANGED <<verdict, attempt, usageVars, nodeVars, runVars>>

NewToolCallStart ==
    /\ event = Pending
    /\ \E id \in ToolCallIds, name \in ToolNames, k \in KindArgs :
           event' = ToolCallStart(id, name, k)
    /\ UNCHANGED <<verdict, attempt, usageVars, nodeVars, runVars>>

NewToolCallDelta ==
    /\ event = Pending
    /\ \E id \in ToolCallIds, delta \in Texts, k \in KindArgs :
           event' = ToolCallDelta(id, delta, k)
    /\ UNCHANGED <<verdict, attempt, usageVars, nodeVars, runVars>>

NewToolCallEnd ==
    /\ event = Pending
    /\ \E id \in ToolCallIds, name \in ToolNames, args \in ArgsInputs, k \in KindArgs :
           event' = ToolCallEnd(id, name, args, k)
    /\ UNCHANGED <<verdict, attempt, usageVars, nodeVars, runVars>>

NewMessageStart ==
    /\ event = Pending
    /\ \E id \in OptionalIds, k \in KindArgs : event' = MessageStart(id, k)
    /\ UNCHANGED <<verdict, attempt, usageVars, nodeVars, runVars>>

NewMessageEnd ==
    /\ event = Pending
    /\ \E id \in OptionalIds, reason \in OptionalReasons, k \in KindArgs :
           event' = MessageEnd(id, reason, k)
    /\ UNCHANGED <<verdict, attempt, usageVars, nodeVars, runVars>>

NewStreamError ==
    /\ event = Pending
    /\ \E err \in Texts, rec \in BOOLEAN, k \in KindArgs :
           event' = StreamError(err, rec, k)
    /\ UNCHANGED <<verdict, attempt, usageVars, nodeVars, runVars>>

\* a consumer asks both predicates about the event
Classify ==
    /\ event # Pending
    /\ verdict' = [is_content_delta |-> is_content_delta(event),
                   is_tool_event |-> is_tool_event(event)]
    /\ UNCHANGED <<event, attempt, usageVars, nodeVars, runVars>>

\* event.kind = k on a frozen dataclass raises and stores nothing
AssignKind ==
    /\ event # Pending
    /\ \E k \in StreamEventKind : k # event.kind
    /\ attempt' = Raised("FrozenInstanceError")
    /\ UNCHANGED <<event, verdict, usageVars, nodeVars, runVars>>

NextStream ==
    \/ NewTextDelta
    \/ NewThoughtDelta
    \/ NewToolCallStart
    \/ NewToolCallDelta
    \/ NewToolCallEnd
    \/ NewMessageStart
    \/ NewMessageEnd
    \/ NewStreamError
    \/ Classify
    \/ AssignKind

StreamSpec == InitStream /\ [][NextStream]_vars

----------------------------------------------------------------------------
(* runner.py *)

\* NodeKind
MODEL_REQUEST == "model-request"
MODEL_RESPONSE == "model-response"
TOOL_CALL == "tool-call"
TOOL_RETURN == "tool-return"
END == "end"

NodeKind == {MODEL_REQUEST, MODEL_RESPONSE, TOOL_CALL, TOOL_RETURN, END}

ToolCallInfo(tool_call_id, tool_name, args) ==
    [tool_call_id |-> tool_call_id, tool_name |-> tool_name, args |-> args]

\* The dataclass AgentNode (slots, not frozen).  kind is a plain str; every
\* other field has a default (tool_calls and tool_returns left out are the
\* empty list and the empty dict).
AgentNode(kind, content, tool_calls, tool_returns, thought, raw) ==
    [kind |-> kind, content |-> OrDefault(content, ""),
     tool_calls |-> tool_calls, tool_returns |-> tool_returns,
     thought |-> OrDefault(thought, PyNone), raw |-> OrDefault(raw, PyNone)]

is_model_request(self) == self.kind = MODEL_REQUEST

\* mutant: the final node is looked for under the wrong discriminator
is_end_on_tool_return(self) == self.kind = TOOL_RETURN

is_end(self) == self.kind = END

has_tool_calls(self) == self.tool_calls # <<>>

(* Inputs of the node specification *)

\* kind: str is not validated: a string outside NodeKind is accepted
KindInputs == NodeKind \cup {"End"}
ContentInputs == {Omitted, "hi"}
ToolCallsInputs == {<<>>, <<ToolCallInfo("call_1", "read_file", [path |-> "/tmp/x"])>>}
ToolReturnsInputs == {[a \in {} |-> ""], [call_1 |-> "ok"]}
ThoughtInputs == {Omitted, "plan"}
RawInputs == {Omitted, "provider-node"}

InitNode ==
    /\ node = Pending
    /\ queries = Pending
    /\ UsageIdle
    /\ StreamIdle
    /\ RunIdle

(* Operations of the node specification *)

NewAgentNode ==
    /\ node = Pending
    /\ \E k \in KindInputs, c \in ContentInputs, calls \in ToolCallsInputs,
          returns \in ToolReturnsInputs, th \in ThoughtInputs, r \in RawInputs :
           node' = AgentNode(k, c, calls, returns, th, r)
    /\ UNCHANGED <<queries, usageVars, streamVars, runVars>>

\* node.<field> = value: the dataclass is mutable.  What was read from the
\* node before the assignment is discarded.
SetAttr ==
    /\ node # Pending
    /\ \/ \E k \in KindInputs : node' = [node EXCEPT !.kind = k]
       \/ \E c \in ContentInputs : node' = [node EXCEPT !.content = OrDefault(c, "")]
       \/ \E calls \in ToolCallsInputs : node' = [node EXCEPT !.tool_calls = calls]
       \/ \E returns \in ToolReturnsInputs : node' = [node EXCEPT !.tool_returns = returns]
       \/ \E th \in ThoughtInputs : node' = [node EXCEPT !.thought = OrDefault(th, PyNone)]
       \/ \E r \in RawInputs : node' = [node EXCEPT !.raw = OrDefault(r, PyNone)]
    /\ queries' = Pending
    /\ UNCHANGED <<usageVars, streamVars, runVars>>

\* the three derived properties are read
ReadQueries ==
    /\ node # Pending
    /\ queries' = [is_model_request |-> is_model_request(node),
                   is_end |-> is_end(node),
                   has_tool_calls |-> has_tool_calls(node)]
    /\ UNCHANGED <<node, usageVars, streamVars, runVars>>

NextNode ==
    \/ NewAgentNode
    \/ SetAttr
    \/ ReadQueries

NodeSpec == InitNode /\ [][NextNode]_vars

----------------------------------------------------------------------------
(* A run behind AgentRunProtocol.  runner.py declares the protocol only      *)
(* (ctx, all_messages, __aiter__); the behaviour of a run is the state       *)
(* machine of the specification: nodes of any kind but end, then end, which  *)
(* is terminal; the consumer's "next node" step delivers the nodes in the    *)
(* order produced, waits while the backend has produced nothing new, and     *)
(* signals exhaustion once end has been delivered.                           *)

\* what __anext__ raises to signal exhaustion; `async for` ends on it
StopAsyncIteration == "StopAsyncIteration"

IsNodeKind(outcome) == outcome \in NodeKind

\* the nodes among the outcomes of the consumer's steps
Delivered(outcomes) == SelectSeq(outcomes, IsNodeKind)

\* the run has produced its end node
Ended(run) == run # <<>> /\ run[Len(run)] = END

\* mutant: the backend goes on producing nodes after end
CanProduce_after_end(run, kind) == kind = END \/ Len(run) < MaxNodes

\* the backend may produce a node of this kind next
CanProduce(run, kind) ==
    /\ ~Ended(run)
    /\ kind = END \/ Len(run) < MaxNodes

\* mutant: a step past the end delivers the end node again
AnextOutcome_replays_end(run, outcomes) ==
    LET n == Len(Delivered(outcomes))
    IN  IF n < Len(run) THEN run[n + 1] ELSE END

\* the outcome of one "next node" step: the oldest node not yet delivered,
\* or exhaustion when every node up to end has been delivered
AnextOutcome(run, outcomes) ==
    LET n == Len(Delivered(outcomes))
    IN  IF n < Len(run) THEN run[n + 1] ELSE StopAsyncIteration

PastEnd(outcomes) == Len(outcomes) - Len(Delivered(outcomes))

InitRun ==
    /\ produced = <<>>
    /\ observed = <<>>
    /\ UsageIdle
    /\ StreamIdle
    /\ NodeIdle

\* the backend produces the next node of the run
Produce ==
    /\ \E kind \in NodeKind :
           /\ CanProduce(produced, kind)
           /\ produced' = Append(produced, kind)
    /\ UNCHANGED <<observed, usageVars, streamVars, nodeVars>>

\* one "next node" step of the consumer; it is suspended while every node
\* produced so far is delivered and the run has not ended
NextNodeStep ==
    /\ Len(Delivered(observed)) < Len(produced) \/ Ended(produced)
    /\ PastEnd(observed) < MaxPastEnd
    /\ observed' = Append(observed, AnextOutcome(produced, observed))
    /\ UNCHANGED <<produced, usageVars, streamVars, nodeVars>>

NextRun ==
    \/ Produce
    \/ NextNodeStep

RunSpec == InitRun /\ [][NextRun]_vars

----------------------------------------------------------------------------
(* Claims about the usage normalizer *)

FromCall(name) == input.call = name /\ usage # Pending

Fields(u) == <<u.request_tokens, u.response_tokens, u.cached_tokens>>

\* C1: total_tokens of every NormalizedUsage is request_tokens +
\* response_tokens, whatever cached_tokens is: the value read from the
\* property and the total_tokens entry of to_dict() are that sum, changing
\* only cached_tokens leaves it the same, and (10, 20, 3) gives 30.
C1_TotalIsRequestPlusResponse ==
    HoldsUsage =>
        LET u == usage.value
            sum == u.request_tokens + u.response_tokens
        IN  /\ total # Pending => total = Returned(sum)
            /\ dumped # Pending => dumped.value.total_tokens = PyInt(sum)
            /\ \A c \in TokenInputs :
                   total_tokens([u EXCEPT !.cached_tokens = c]) = sum
            /\ (Fields(u) = <<10, 20, 3>> /\ total # Pending) => total.value = 30

C1_Witness ==
    /\ usage = Returned(NormalizedUsage(10, 20, 3))
    /\ total = Returned(30)

\* C2: round trip: for a NormalizedUsage u with non-negative integer
\* fields, usage_from_dict(u.to_dict()) returns a NormalizedUsage with the
\* same request_tokens, response_tokens and cached_tokens.
C2_RoundTrip ==
    (/\ HoldsUsage
     /\ reloaded # Pending
     /\ \A i \in 1..3 : Fields(usage.value)[i] >= 0)
    => /\ reloaded.tag = "returned"
       /\ IsUsage(reloaded.value)
       /\ Fields(reloaded.value) = Fields(usage.value)

C2_Witness ==
    /\ input.call = "NormalizedUsage"
    /\ input.request = 1 /\ input.response = 2 /\ input.cached = 1
    /\ reloaded = Returned(NormalizedUsage(1, 2, 1))

\* values int() rejects, and those among them that are truthy
Garbage == {PyNone, PyStr(<<>>), PyStr(<<"x">>)}
TruthyGarbage == {PyStr(<<"x">>)}
\* values that are falsy: `raw_value or 0` replaces them by 0
Falsy == {PyNone, PyInt(0), PyFloat(0), PyStr(<<>>)}

NoAttributes == UsageObject([a \in {} |-> PyNone])

\* C4 as stated: normalize_request_usage(None) returns None, every non-None
\* input returns a NormalizedUsage, and an object with none of the three
\* attributes gives NormalizedUsage(0, 0, 0).
C4_Original ==
    FromCall("normalize_request_usage") =>
        /\ input.arg = PyNone => usage = Returned(PyNone)
        /\ input.arg # PyNone => HoldsUsage
        /\ input.arg = NoAttributes => usage = Returned(NormalizedUsage(0, 0, 0))

\* C4 (amended): normalize_request_usage(None) returns None and not a
\* zero-filled usage; a non-None input never returns None: the call returns
\* a NormalizedUsage or raises; an object with none of the three attributes
\* gives NormalizedUsage(0, 0, 0).
C4_NoneIffNone ==
    FromCall("normalize_request_usage") =>
        /\ input.arg = PyNone => usage = Returned(PyNone)
        /\ input.arg # PyNone => (HoldsUsage \/ usage.tag = "raised")
        /\ input.arg = NoAttributes => usage = Returned(NormalizedUsage(0, 0, 0))

C4_Witness ==
    /\ FromCall("normalize_request_usage")
    /\ input.arg = PyNone
    /\ usage = Returned(PyNone)

With(data, key, value) ==
    [k \in DOMAIN data \cup {key} |-> IF k = key THEN value ELSE data[k]]
Without(data, key) == [k \in DOMAIN data \ {key} |-> data[k]]

\* the same counts under the canonical key names
Canonical(data) ==
    [k \in {IF a = "prompt_tokens" THEN "request_tokens"
            ELSE IF a = "completion_tokens" THEN "response_tokens" ELSE a :
            a \in DOMAIN data} |->
        IF k = "request_tokens" /\ k \notin DOMAIN data THEN data["prompt_tokens"]
        ELSE IF k = "response_tokens" /\ k \notin DOMAIN data THEN data["completion_tokens"]
        ELSE data[k]]

\* what one field of usage_from_dict's result must be, for integer values
FieldFollows(data, got, key, alt) ==
    /\ (key \in DOMAIN data /\ data[key].t = "int") => got = data[key].v
    /\ (key \notin DOMAIN data /\ alt \in DOMAIN data /\ data[alt].t = "int")
           => got = data[alt].v
    /\ (key \notin DOMAIN data /\ alt \notin DOMAIN data) => got = 0

\* C5: usage_from_dict reads the alternate key only when the canonical key
\* is absent: a canonical key that is present wins (also with value 0, and
\* also when int() rejects it), a field with neither key is 0, and a mapping
\* {prompt_tokens: a, completion_tokens: b} gives what {request_tokens: a,
\* response_tokens: b} gives, NormalizedUsage(a, b, 0).
C5_AlternateOnlyWhenAbsent ==
    FromCall("usage_from_dict") =>
        LET d == input.arg
        IN  /\ HoldsUsage =>
                /\ FieldFollows(d, usage.value.request_tokens,
                                "request_tokens", "prompt_tokens")
                /\ FieldFollows(d, usage.value.response_tokens,
                                "response_tokens", "completion_tokens")
                /\ "cached_tokens" \notin DOMAIN d => usage.value.cached_tokens = 0
            /\ (\E k \in {"request_tokens", "response_tokens"} :
                    k \in DOMAIN d /\ d[k] \in Garbage) => usage.tag = "raised"
            /\ DOMAIN d \subseteq {"prompt_tokens", "completion_tokens"} =>
                /\ usage = usage_from_dict(Canonical(d))
                /\ (\A k \in DOMAIN d : d[k].t = "int") =>
                       usage = Returned(NormalizedUsage(
                                   DictGet(d, "prompt_tokens", PyInt(0)).v,
                                   DictGet(d, "completion_tokens", PyInt(0)).v, 0))

C5_Witness ==
    /\ FromCall("usage_from_dict")
    /\ DOMAIN input.arg = {"request_tokens", "prompt_tokens"}
    /\ input.arg["request_tokens"] = PyInt(0)
    /\ input.arg["prompt_tokens"] = PyInt(2)
    /\ usage = Returned(NormalizedUsage(0, 0, 0))

\* the key usage_from_dict reads a field from: the canonical one when it is
\* present, otherwise the alternate one
ReadKey(data, key, alt) == IF key \in DOMAIN data THEN key ELSE alt

FieldKeys ==
    {<<"request_tokens", "prompt_tokens">>, <<"response_tokens", "completion_tokens">>,
     <<"cached_tokens", "cached_tokens">>}

\* some field of the mapping is present with a value in the set bad
DictHolds(data, bad) ==
    \E f \in FieldKeys :
        LET k == ReadKey(data, f[1], f[2])
        IN  k \in DOMAIN data /\ data[k] \in bad

\* C6 as stated: in both entry points an absent field defaults to 0 and a
\* field present with a value int() rejects makes the call raise: it is
\* never turned into 0 and no NormalizedUsage is returned.
C6_Original ==
    /\ (FromCall("normalize_request_usage") /\ input.arg # PyNone) =>
           LET a == input.arg.attrs
           IN  /\ (\E k \in DOMAIN a : a[k] \in Garbage) => usage.tag = "raised"
               /\ HoldsUsage => \A k \in UsageAttrs \ DOMAIN a : usage.value[k] = 0
    /\ FromCall("usage_from_dict") =>
           LET d == input.arg
           IN  /\ DictHolds(d, Garbage) => usage.tag = "raised"
               /\ HoldsUsage =>
                      \A f \in FieldKeys :
                          ReadKey(d, f[1], f[2]) \notin DOMAIN d => usage.value[f[1]] = 0

\* C6 (amended): in usage_from_dict an absent field defaults to 0 and a
\* field present with a value int() rejects (None, "", "x") makes the call
\* raise the TypeError or ValueError of int(), and the call raises for no
\* other reason.  In normalize_request_usage an attribute that is absent or
\* falsy (None, 0, 0.0, "") gives 0, so None and "" are turned into 0 there,
\* and the call raises (ValueError) exactly when an attribute holds a truthy
\* value int() rejects.
C6_AbsentZeroGarbageRaises ==
    /\ (FromCall("normalize_request_usage") /\ input.arg # PyNone) =>
           LET a == input.arg.attrs
               bad == \E k \in DOMAIN a : a[k] \in TruthyGarbage
           IN  /\ bad => usage = Raised("ValueError")
               /\ ~bad => HoldsUsage
               /\ HoldsUsage =>
                      \A k \in UsageAttrs :
                          (k \notin DOMAIN a \/ a[k] \in Falsy) => usage.value[k] = 0
    /\ FromCall("usage_from_dict") =>
           LET d == input.arg
           IN  /\ DictHolds(d, Garbage) =>
                      (usage.tag = "raised" /\ usage.exc \in {"TypeError", "ValueError"})
               /\ ~DictHolds(d, Garbage) => HoldsUsage
               /\ HoldsUsage =>
                      \A f \in FieldKeys :
                          ReadKey(d, f[1], f[2]) \notin DOMAIN d => usage.value[f[1]] = 0

C6_Witness ==
    /\ FromCall("normalize_request_usage")
    /\ input.arg = UsageObject([request_tokens |-> PyStr(<<"x">>), cached_tokens |-> PyNone])
    /\ usage = Raised("ValueError")

\* C7: every NormalizedUsage that normalize_request_usage or usage_from_dict
\* returns has non-negative request_tokens, response_tokens and
\* cached_tokens, also for inputs carrying negative or fractional numbers.
C7_NonNegativeFields ==
    ((FromCall("normalize_request_usage") \/ FromCall("usage_from_dict")) /\ HoldsUsage)
    => \A i \in 1..3 : Fields(usage.value)[i] >= 0

\* C8: a stored total_tokens is never trusted: usage_from_dict(d) is what
\* usage_from_dict gives for d with total_tokens removed or set to any
\* other value, and the total_tokens of the result, and the total_tokens
\* entry of its to_dict(), is the result's request_tokens + response_tokens.
C8_StoredTotalIgnored ==
    FromCall("usage_from_dict") =>
        LET d == input.arg
        IN  /\ usage = usage_from_dict(Without(d, "total_tokens"))
            /\ \A v \in RawValues : usage = usage_from_dict(With(d, "total_tokens", v))
            /\ HoldsUsage =>
                   LET sum == usage.value.request_tokens + usage.value.response_tokens
                   IN  /\ total # Pending => total = Returned(sum)
                       /\ dumped # Pending => dumped.value.total_tokens = PyInt(sum)

C8_Witness ==
    /\ FromCall("usage_from_dict")
    /\ DOMAIN input.arg = {"request_tokens", "total_tokens"}
    /\ input.arg["request_tokens"] = PyInt(0 - 1)
    /\ input.arg["total_tokens"] = PyInt(2)
    /\ total = Returned(0 - 1)
    /\ dumped # Pending
    /\ dumped.value.total_tokens = PyInt(0 - 1)

----------------------------------------------------------------------------
(* Claims about the stream events *)

ContentClasses == {"TextDelta", "ThoughtDelta"}
ToolClasses == {"ToolCallStart", "ToolCallDelta", "ToolCallEnd"}
OtherClasses == {"MessageStart", "MessageEnd", "StreamError"}

\* C3: for an event of any of the 8 variants exactly one holds:
\* is_content_delta (TextDelta, ThoughtDelta), is_tool_event (ToolCallStart,
\* ToolCallDelta, ToolCallEnd), or the event is a MessageStart, MessageEnd
\* or StreamError; the predicates are never both true and are both false
\* exactly for the third bucket.
C3_ThreeBuckets ==
    verdict # Pending =>
        LET c == verdict.is_content_delta
            t == verdict.is_tool_event
            o == event.cls \in OtherClasses
        IN  /\ c <=> event.cls \in ContentClasses
            /\ t <=> event.cls \in ToolClasses
            /\ ~(c /\ t)
            /\ (~c /\ ~t) <=> o
            /\ Cardinality({b \in {<<1, c>>, <<2, t>>, <<3, o>>} : b[2]}) = 1

C3_Witness ==
    /\ event # Pending
    /\ event.cls = "ToolCallEnd"
    /\ verdict = [is_content_delta |-> FALSE, is_tool_event |-> TRUE]

\* the discriminator of each variant class
KindOfClass(cls) ==
    CASE cls = "TextDelta" -> "text-delta"
      [] cls = "ThoughtDelta" -> "thought-delta"
      [] cls = "ToolCallStart" -> "tool-call-start"
      [] cls = "ToolCallDelta" -> "tool-call-delta"
      [] cls = "ToolCallEnd" -> "tool-call-end"
      [] cls = "MessageStart" -> "message-start"
      [] cls = "MessageEnd" -> "message-end"
      [] cls = "StreamError" -> "error"

\* C9: every StreamEvent instance carries the discriminator of its own
\* variant class, so that classifying by kind agrees with is_content_delta
\* (kind is text-delta or thought-delta) and with is_tool_event (kind is
\* tool-call-start, tool-call-delta or tool-call-end).
C9_KindIsOwnVariant ==
    /\ event # Pending => event.kind = KindOfClass(event.cls)
    /\ verdict # Pending =>
           /\ verdict.is_content_delta <=> event.kind \in {"text-delta", "thought-delta"}
           /\ verdict.is_tool_event <=>
                  event.kind \in {"tool-call-start", "tool-call-delta", "tool-call-end"}

----------------------------------------------------------------------------
(* Claims about the agent node *)

\* C10: the derived queries of an AgentNode depend only on kind: is_end is
\* true iff kind is "end" and is_model_request iff kind is "model-request",
\* whatever content, tool_calls, tool_returns, thought and raw hold; a node
\* of kind "end" has is_end true and is_model_request false, and no node has
\* both true.
C10_QueriesFollowKind ==
    queries # Pending =>
        /\ queries.is_end <=> node.kind = "end"
        /\ queries.is_model_request <=> node.kind = "model-request"
        /\ node.kind = "end" => (queries.is_end /\ ~queries.is_model_request)
        /\ ~(queries.is_end /\ queries.is_model_request)
        /\ \A c \in ContentInputs, calls \in ToolCallsInputs,
              returns \in ToolReturnsInputs, th \in ThoughtInputs, r \in RawInputs :
               LET other == AgentNode(node.kind, c, calls, returns, th, r)
               IN  /\ is_end(other) = queries.is_end
                   /\ is_model_request(other) = queries.is_model_request

C10_Witness ==
    /\ queries # Pending
    /\ node.kind = "end"
    /\ node.tool_calls # <<>>
    /\ node.content = "hi"
    /\ queries.is_end
    /\ ~queries.is_model_request

----------------------------------------------------------------------------
(* Claims about the run *)

IsPrefix(a, b) == Len(a) <= Len(b) /\ SubSeq(b, 1, Len(a)) = a

\* C11: in every run the end node is terminal and observed exactly once:
\* the nodes are delivered in the order produced, no node of any kind is
\* produced after end, and every iteration step taken after end has been
\* observed yields nothing (exhaustion), neither a node nor an error.
C11_EndIsTerminal ==
    /\ IsPrefix(Delivered(observed), produced)
    /\ \A i \in 1..Len(produced) : produced[i] = END => i = Len(produced)
    /\ \A i \in 1..Len(observed) : observed[i] \in NodeKind \cup {StopAsyncIteration}
    /\ \A i, j \in 1..Len(observed) :
           (i < j /\ observed[i] = END) => observed[j] = StopAsyncIteration
    /\ Cardinality({i \in 1..Len(observed) : observed[i] = END}) <= 1
    /\ (\E i \in 1..Len(observed) : observed[i] = StopAsyncIteration) =>
           Cardinality({i \in 1..Len(observed) : observed[i] = END}) = 1

C11_Witness ==
    /\ produced = <<"model-request", "model-response", "end">>
    /\ observed = <<"model-request", "model-response", "end",
                    "StopAsyncIteration", "StopAsyncIteration">>

----------------------------------------------------------------------------
(* Claims about the two usage entry points together *)

\* both calls fail, or both return equal values
Agree(a, b) ==
    \/ a.tag = "raised" /\ b.tag = "raised"
    \/ a.tag = "returned" /\ a = b

\* the values the claim names: integers, 0, None, empty or numeric strings
NamedValues ==
    {PyNone} \cup IntInputs
    \cup {PyStr(<<>>), PyStr(<<"2">>), PyStr(<<"-", "1">>), PyStr(<<" ", "7", " ">>)}

\* falsy values that int() rejects
FalsyGarbage == {PyNone, PyStr(<<>>)}

\* the mapping with every None and "" replaced by 0
Zeroed(data) ==
    [k \in DOMAIN data |-> IF data[k] \in FalsyGarbage THEN PyInt(0) ELSE data[k]]

\* C12 as stated: for any assignment of integers, 0, None, empty or numeric
\* strings, or absence, to the three canonical fields,
\* normalize_request_usage on an object exposing them as attributes and
\* usage_from_dict on a mapping holding them as keys both fail or both
\* return equal values; a present None or other falsy value is 0 for both.
C12_Original ==
    (/\ FromCall("normalize_request_usage")
     /\ input.arg # PyNone
     /\ \A k \in DOMAIN input.arg.attrs : input.arg.attrs[k] \in NamedValues)
    => Agree(usage, usage_from_dict(input.arg.attrs))

\* C12 (amended): the two entry points both fail or both return equal
\* values for any assignment in which no field is present with None or "";
\* a field present with None or "" is 0 for normalize_request_usage, while
\* usage_from_dict raises on it: normalize_request_usage on the object
\* agrees with usage_from_dict on the mapping in which every None and "" is
\* replaced by 0.
C12_AgreeUpToFalsyGarbage ==
    (FromCall("normalize_request_usage") /\ input.arg # PyNone) =>
        LET a == input.arg.attrs
        IN  /\ Agree(usage, usage_from_dict(Zeroed(a)))
            /\ (\A k \in DOMAIN a : a[k] \notin FalsyGarbage) =>
                   Agree(usage, usage_from_dict(a))
            /\ (\E k \in DOMAIN a : a[k] \in FalsyGarbage) =>
                   usage_from_dict(a).tag = "raised"

C12_Witness ==
    /\ FromCall("normalize_request_usage")
    /\ input.arg = UsageObject([request_tokens |-> PyNone, response_tokens |-> PyStr(<<"2">>)])
    /\ usage = Returned(NormalizedUsage(0, 2, 0))
    /\ usage_from_dict(input.arg.attrs) = Raised("TypeError")

====
